---- MODULE Spec2Model ----
(***************************************************************************)
(* Help Request lifecycle of Crisis_Circle: the HelpRequest collection,    *)
(* the route middleware validateHelpRequestAccess, the HelpController      *)
(* handlers and UserController.deleteAccount.                              *)
(*                                                                         *)
(* Every handler of a request route is split at its database operations:   *)
(* the step that reads the request (findById in the middleware, together   *)
(* with every check made on the loaded document before the next await) and *)
(* the step that writes it (document.save(), findByIdAndDelete). Handlers  *)
(* of different HTTP requests interleave between those steps.              *)
(* createHelpRequest and deleteAccount are one step each.                  *)
(***************************************************************************)
EXTENDS Integers, FiniteSets, Sequences, TLC

\* ---------------------------------------------------------------- bounds
MaxTime == 2      \* last value of the clock
MaxTitle == 2     \* distinct title values a caller can send
MaxNotes == 2     \* notes written on a request
MaxItems == 3     \* entries of the items list of a request body

Users == {"u1", "u2", "u3"}     \* the registered, approved accounts
ReqIds == {"r1"}                \* the ids the store hands out
Slots == {1, 2}                 \* HTTP requests in flight at the same time
Titles == 1..MaxTitle

\* ---------------------------------------------------------------- values
NoUser == "none"          \* donorId not set
NoTime == 0               \* approvedAt / completedAt not set
OPEN == "open"
APPROVED == "approved"
COMPLETED == "completed"

VARIABLES
    store,    \* HelpRequest collection: request id -> document
    users,    \* User collection: ids of the existing (approved) accounts
    used,     \* request ids handed out so far (an id is never reused)
    now,      \* the clock read by new Date()
    slot,     \* per in-flight HTTP request: the handler's position and locals
    resp      \* the response sent by the last step, NoResp when it sent none

vars == <<store, users, used, now, slot, resp>>

Idle == [pc |-> "idle"]
NoRid == "none"
NoArg == << >>
NoResp == [op |-> "none", actor |-> NoUser, rid |-> NoRid, result |-> "none"]

Response(op, actor, rid, result) ==
    [op |-> op, actor |-> actor, rid |-> rid, result |-> result]

\* ------------------------------------------------------------ the schema
\* new HelpRequest(requestData): status defaults to open, donorId,
\* approvedAt and completedAt are not set.
NewRequest(recipientId, title) ==
    [recipientId |-> recipientId, title |-> title, status |-> OPEN,
     donorId |-> NoUser, approvedAt |-> NoTime, completedAt |-> NoTime]

\* helpRequestSchema.methods.approve: the paths it assigns before save()
approve(donorId, t) ==
    [status |-> APPROVED, donorId |-> donorId, approvedAt |-> t]

\* complete() that also clears approvedAt
complete_clearsApprovedAt(t) ==
    [status |-> COMPLETED, completedAt |-> t, approvedAt |-> NoTime]

\* helpRequestSchema.methods.complete: the paths it assigns before save()
complete(t) ==
    [status |-> COMPLETED, completedAt |-> t]

\* Object.assign(helpRequest, updates): the paths of the loaded document
\* that become modified are those whose value changes
assign(doc, updates) ==
    [f \in {g \in DOMAIN updates : updates[g] # doc[g]} |-> updates[f]]

\* document.save() of an existing document: $set of the modified paths on
\* the stored document with that _id; the other stored paths stay
save(st, rid, modified) ==
    [st EXCEPT ![rid] = [f \in DOMAIN st[rid] |->
                            IF f \in DOMAIN modified THEN modified[f]
                            ELSE st[rid][f]]]

\* --------------------------------------------------- the route middleware
isOwner(doc, userId) == doc.recipientId = userId
isDonor(doc, userId) == doc.donorId # NoUser /\ doc.donorId = userId

\* validateHelpRequestAccess with the status check of "approve" placed
\* before its ownership check
validateHelpRequestAccess_statusFirst(action, doc, userId) ==
    CASE action = "edit" ->
            IF ~isOwner(doc, userId) THEN "Forbidden" ELSE "next"
      [] action = "approve" ->
            IF doc.status # OPEN THEN "Conflict"
            ELSE IF isOwner(doc, userId) THEN "Forbidden"
            ELSE "next"
      [] action = "complete" ->
            IF ~isDonor(doc, userId) /\ ~isOwner(doc, userId)
            THEN "Forbidden" ELSE "next"
      [] OTHER -> "BadRequest"

\* validateHelpRequestAccess without the ownership check of "approve"
validateHelpRequestAccess_noOwnerCheck(action, doc, userId) ==
    CASE action = "edit" ->
            IF ~isOwner(doc, userId) THEN "Forbidden" ELSE "next"
      [] action = "approve" ->
            IF doc.status # OPEN THEN "Conflict" ELSE "next"
      [] action = "complete" ->
            IF ~isDonor(doc, userId) /\ ~isOwner(doc, userId)
            THEN "Forbidden" ELSE "next"
      [] OTHER -> "BadRequest"

\* validateHelpRequestAccess(action) on the loaded document: "next" when the
\* controller is called, else the response it sends.
validateHelpRequestAccess(action, doc, userId) ==
    CASE action = "edit" ->
            IF ~isOwner(doc, userId) THEN "Forbidden" ELSE "next"
      [] action = "approve" ->
            IF isOwner(doc, userId) THEN "Forbidden"
            ELSE IF doc.status # OPEN THEN "Conflict"
            ELSE "next"
      [] action = "complete" ->
            IF ~isDonor(doc, userId) /\ ~isOwner(doc, userId)
            THEN "Forbidden" ELSE "next"
      [] OTHER -> "BadRequest"

\* The handler of slot s is answered: the slot is free again.
Answer(s, op, actor, rid, result) ==
    /\ slot' = [slot EXCEPT ![s] = Idle]
    /\ resp' = Response(op, actor, rid, result)

\* A new HTTP request takes the first free handler slot
FreeSlot(s) ==
    /\ slot[s] = Idle
    /\ \A t \in Slots : t < s => slot[t] # Idle

\* The handler of slot s passed its checks on the loaded document and waits
\* for its write; arg holds the paths save() will write.
Pending(s, op, actor, rid, arg) ==
    /\ slot' = [slot EXCEPT ![s] = [pc |-> "loaded", op |-> op,
                                    actor |-> actor, rid |-> rid,
                                    arg |-> arg]]
    /\ resp' = NoResp

\* ----------------------------------------------------------------- Init
Init ==
    /\ store = << >>
    /\ users = Users
    /\ used = {}
    /\ now = 1
    /\ slot = [s \in Slots |-> Idle]
    /\ resp = NoResp

\* new Date() never goes back
Tick ==
    /\ now < MaxTime
    /\ now' = now + 1
    /\ resp' = NoResp
    /\ UNCHANGED <<store, users, used, slot>>

\* POST /requests: createHelpRequest
createHelpRequest(userId, title) ==
    /\ userId \in users
    /\ used # ReqIds
    /\ LET id == CHOOSE r \in ReqIds : r \notin used
       IN /\ store' = [r \in DOMAIN store \cup {id} |->
                          IF r = id THEN NewRequest(userId, title)
                          ELSE store[r]]
          /\ used' = used \cup {id}
          /\ resp' = Response("create", userId, id, "OK")
    /\ UNCHANGED <<users, now, slot>>

\* POST /requests/:requestId/approve, up to the call of approve():
\* authenticateToken, validateHelpRequestAccess("approve")
RouteApprove(s, userId, requestId) ==
    /\ FreeSlot(s)
    /\ userId \in users
    /\ IF requestId \notin DOMAIN store
       THEN Answer(s, "approve", userId, requestId, "NotFound")
       ELSE LET v == validateHelpRequestAccess("approve", store[requestId], userId)
            IN IF v # "next"
               THEN Answer(s, "approve", userId, requestId, v)
               ELSE Pending(s, "approve", userId, requestId, NoArg)
    /\ UNCHANGED <<store, users, used, now>>

\* approveHelpRequest: helpRequest.approve(req.user.userId) and the response
approveHelpRequest(s) ==
    /\ slot[s].pc = "loaded"
    /\ slot[s].op = "approve"
    /\ LET h == slot[s]
       IN IF h.rid \notin DOMAIN store
          THEN /\ Answer(s, "approve", h.actor, h.rid, "ServerError")
               /\ UNCHANGED store
          ELSE /\ store' = save(store, h.rid, approve(h.actor, now))
               /\ Answer(s, "approve", h.actor, h.rid, "OK")
    /\ UNCHANGED <<users, used, now>>

\* POST /requests/:requestId/complete, up to the call of complete():
\* authenticateToken, validateHelpRequestAccess("complete") and the status
\* check that opens completeHelpRequest
RouteComplete(s, userId, requestId) ==
    /\ FreeSlot(s)
    /\ userId \in users
    /\ IF requestId \notin DOMAIN store
       THEN Answer(s, "complete", userId, requestId, "NotFound")
       ELSE LET v == validateHelpRequestAccess("complete", store[requestId], userId)
            IN IF v # "next"
               THEN Answer(s, "complete", userId, requestId, v)
               ELSE IF store[requestId].status # APPROVED
               THEN Answer(s, "complete", userId, requestId, "InvalidState")
               ELSE Pending(s, "complete", userId, requestId, NoArg)
    /\ UNCHANGED <<store, users, used, now>>

\* completeHelpRequest: helpRequest.complete() and the response
completeHelpRequest(s) ==
    /\ slot[s].pc = "loaded"
    /\ slot[s].op = "complete"
    /\ LET h == slot[s]
       IN IF h.rid \notin DOMAIN store
          THEN /\ Answer(s, "complete", h.actor, h.rid, "ServerError")
               /\ UNCHANGED store
          ELSE /\ store' = save(store, h.rid, complete(now))
               /\ Answer(s, "complete", h.actor, h.rid, "OK")
    /\ UNCHANGED <<users, used, now>>

\* PUT /requests/:requestId, up to save(): authenticateToken,
\* validateHelpRequestAccess("edit"), validate(helpRequestValidation.update)
\* (the patch holds fields of the update schema only) and
\* Object.assign(helpRequest, updates) on the loaded document. save() of a
\* document without modified paths sends nothing to the database: the
\* handler answers without a write.
RouteEdit(s, userId, requestId, title) ==
    /\ FreeSlot(s)
    /\ userId \in users
    /\ IF requestId \notin DOMAIN store
       THEN Answer(s, "edit", userId, requestId, "NotFound")
       ELSE LET v == validateHelpRequestAccess("edit", store[requestId], userId)
                modified == assign(store[requestId], [title |-> title])
            IN IF v # "next"
               THEN Answer(s, "edit", userId, requestId, v)
               ELSE IF DOMAIN modified = {}
               THEN Answer(s, "edit", userId, requestId, "OK")
               ELSE Pending(s, "edit", userId, requestId, modified)
    /\ UNCHANGED <<store, users, used, now>>

\* updateHelpRequest: save() after Object.assign(helpRequest, updates) writes
\* the paths made modified on the loaded document
updateHelpRequest(s) ==
    /\ slot[s].pc = "loaded"
    /\ slot[s].op = "edit"
    /\ LET h == slot[s]
           modified == h.arg
       IN IF h.rid \notin DOMAIN store
          THEN /\ Answer(s, "edit", h.actor, h.rid, "ServerError")
               /\ UNCHANGED store
          ELSE /\ store' = save(store, h.rid, modified)
               /\ Answer(s, "edit", h.actor, h.rid, "OK")
    /\ UNCHANGED <<users, used, now>>

\* DELETE /requests/:requestId, up to findByIdAndDelete: authenticateToken,
\* validateHelpRequestAccess("edit") and the status check that opens
\* deleteHelpRequest
RouteDelete(s, userId, requestId) ==
    /\ FreeSlot(s)
    /\ userId \in users
    /\ IF requestId \notin DOMAIN store
       THEN Answer(s, "delete", userId, requestId, "NotFound")
       ELSE LET v == validateHelpRequestAccess("edit", store[requestId], userId)
            IN IF v # "next"
               THEN Answer(s, "delete", userId, requestId, v)
               ELSE IF store[requestId].status = APPROVED
               THEN Answer(s, "delete", userId, requestId, "BadRequest")
               ELSE Pending(s, "delete", userId, requestId, NoArg)
    /\ UNCHANGED <<store, users, used, now>>

\* deleteHelpRequest: HelpRequest.findByIdAndDelete(requestId) and the
\* response (a missing document is not an error)
deleteHelpRequest(s) ==
    /\ slot[s].pc = "loaded"
    /\ slot[s].op = "delete"
    /\ LET h == slot[s]
       IN /\ store' = [r \in DOMAIN store \ {h.rid} |-> store[r]]
          /\ Answer(s, "delete", h.actor, h.rid, "OK")
    /\ UNCHANGED <<users, used, now>>

\* a count of the requests the user is the recipient of only
activeRequests_recipientOnly(st, userId) ==
    {r \in DOMAIN st :
        st[r].recipientId = userId /\ st[r].status \in {OPEN, APPROVED}}

\* deleteAccount, countDocuments: the requests that block the deletion
activeRequests(st, userId) ==
    {r \in DOMAIN st :
        \/ st[r].recipientId = userId /\ st[r].status \in {OPEN, APPROVED}
        \/ st[r].donorId = userId /\ st[r].status = APPROVED}

\* deleteAccount: HelpRequest.deleteMany({recipientId: userId})
deleteMany(st, userId) ==
    [r \in {x \in DOMAIN st : st[x].recipientId # userId} |-> st[r]]

\* deleteAccount: HelpRequest.updateMany({donorId: userId},
\* {$unset: {donorId, approvedAt, rating.donorRating}, $set: {status: open}})
updateMany(st, userId) ==
    [r \in DOMAIN st |->
        IF st[r].donorId = userId
        THEN [st[r] EXCEPT !.donorId = NoUser,
                           !.approvedAt = NoTime,
                           !.status = OPEN]
        ELSE st[r]]

\* DELETE /api/user/account: authenticateToken, the password check, the
\* active request check, the clean-up of the user's requests and
\* User.findByIdAndDelete(userId)
deleteAccount(userId, passwordValid) ==
    /\ userId \in users
    /\ IF ~passwordValid \/ Cardinality(activeRequests(store, userId)) > 0
       THEN /\ resp' = Response("deleteAccount", userId, NoRid, "BadRequest")
            /\ UNCHANGED <<store, users>>
       ELSE /\ store' = updateMany(deleteMany(store, userId), userId)
            /\ users' = users \ {userId}
            /\ resp' = Response("deleteAccount", userId, NoRid, "OK")
    /\ UNCHANGED <<used, now, slot>>

Next ==
    \/ Tick
    \/ \E u \in Users, t \in Titles : createHelpRequest(u, t)
    \/ \E s \in Slots, u \in Users, r \in ReqIds : RouteApprove(s, u, r)
    \/ \E s \in Slots : approveHelpRequest(s)
    \/ \E s \in Slots, u \in Users, r \in ReqIds : RouteComplete(s, u, r)
    \/ \E s \in Slots : completeHelpRequest(s)
    \/ \E s \in Slots, u \in Users, r \in ReqIds, t \in Titles :
          RouteEdit(s, u, r, t)
    \/ \E s \in Slots : updateHelpRequest(s)
    \/ \E s \in Slots, u \in Users, r \in ReqIds : RouteDelete(s, u, r)
    \/ \E s \in Slots : deleteHelpRequest(s)
    \/ \E u \in Users, p \in BOOLEAN : deleteAccount(u, p)

Spec == Init /\ [][Next]_vars

\* Accounts are deleted while requests are created, approved and completed.
NextAccount ==
    \/ Tick
    \/ \E u \in Users, t \in Titles : createHelpRequest(u, t)
    \/ \E s \in Slots, u \in Users, r \in ReqIds : RouteApprove(s, u, r)
    \/ \E s \in Slots : approveHelpRequest(s)
    \/ \E s \in Slots, u \in Users, r \in ReqIds : RouteComplete(s, u, r)
    \/ \E s \in Slots : completeHelpRequest(s)
    \/ \E u \in Users, p \in BOOLEAN : deleteAccount(u, p)

SpecAccount == Init /\ [][NextAccount]_vars

\* ------------------------------------------------ collaboration paths
\* rating.recipientRating / rating.donorRating not set
NoRating == [stars |-> 0, comment |-> "", createdAt |-> NoTime]

\* metadata.flagged of a request nobody flagged
NoFlag ==
    [isFlagged |-> FALSE, reason |-> "none", flaggedBy |-> NoUser,
     flaggedAt |-> NoTime]

\* End dates of the availability window of the stored request
EndDates == 1..MaxTime

\* A new request document with, beside the lifecycle paths, its
\* availabilityWindow.endDate, notes, rating and metadata paths at the
\* schema's defaults
helpRequestSchema(recipientId, title, endDate) ==
    LET lifecycle == NewRequest(recipientId, title)
        others == [endDate |-> endDate,
                   notes |-> << >>,
                   recipientRating |-> NoRating,
                   donorRating |-> NoRating,
                   interested |-> << >>,
                   flagged |-> NoFlag]
    IN [f \in DOMAIN lifecycle \cup DOMAIN others |->
           IF f \in DOMAIN lifecycle THEN lifecycle[f] ELSE others[f]]

\* virtual isExpired: new Date() > this.availabilityWindow.endDate
isExpired(doc, t) == t > doc.endDate

\* document.save() after array.push(): $push of the new elements at the end
\* of the stored array; the stored elements stay
savePush(st, rid, path, pushed) ==
    [st EXCEPT ![rid][path] = @ \o pushed]

\* The store holds one open request, created by u1 before the clock's first
\* value, whose end date is the clock's last value.
InitOpen ==
    /\ store = [r \in ReqIds |-> helpRequestSchema("u1", 1, MaxTime)]
    /\ users = Users
    /\ used = ReqIds
    /\ now = 1
    /\ slot = [s \in Slots |-> Idle]
    /\ resp = NoResp

\* The store holds one open request, created by u1 before the clock's first
\* value with any end date not yet passed.
InitExpiry ==
    /\ \E e \in EndDates :
          store = [r \in ReqIds |-> helpRequestSchema("u1", 1, e)]
    /\ users = Users
    /\ used = ReqIds
    /\ now = 1
    /\ slot = [s \in Slots |-> Idle]
    /\ resp = NoResp

\* ------------------------------------------------------------- interest
\* The entries of user userId in metadata.interested
entriesOf(list, userId) == {i \in DOMAIN list : list[i].userId = userId}

\* markInterested() that pushes without looking at the list
markInterested_alwaysPushes(doc, userId, t) ==
    << [userId |-> userId, interestedAt |-> t] >>

\* helpRequestSchema.methods.markInterested: the elements it pushes on
\* metadata.interested before save(); none when the user has an entry
markInterested(doc, userId, t) ==
    IF entriesOf(doc.interested, userId) # {}
    THEN << >>
    ELSE << [userId |-> userId, interestedAt |-> t] >>

\* POST /requests/:requestId/interest, up to save(): authenticateToken,
\* findById, the own-request check and markInterested() on the loaded
\* document, which answers without a write when it pushes nothing
RouteInterest(s, userId, requestId) ==
    /\ FreeSlot(s)
    /\ userId \in users
    /\ IF requestId \notin DOMAIN store
       THEN Answer(s, "interest", userId, requestId, "NotFound")
       ELSE IF store[requestId].recipientId = userId
       THEN Answer(s, "interest", userId, requestId, "BadRequest")
       ELSE LET pushed == markInterested(store[requestId], userId, now)
            IN IF pushed = << >>
               THEN Answer(s, "interest", userId, requestId, "OK")
               ELSE Pending(s, "interest", userId, requestId, pushed)
    /\ UNCHANGED <<store, users, used, now>>

\* markInterest: the save() of markInterested() and the response
markInterest(s) ==
    /\ slot[s].pc = "loaded"
    /\ slot[s].op = "interest"
    /\ LET h == slot[s]
       IN IF h.rid \notin DOMAIN store
          THEN /\ Answer(s, "interest", h.actor, h.rid, "ServerError")
               /\ UNCHANGED store
          ELSE /\ store' = savePush(store, h.rid, "interested", h.arg)
               /\ Answer(s, "interest", h.actor, h.rid, "OK")
    /\ UNCHANGED <<users, used, now>>

\* approve and interest calls on one request
NextInterest ==
    \/ Tick
    \/ \E s \in Slots, u \in Users, r \in ReqIds : RouteApprove(s, u, r)
    \/ \E s \in Slots : approveHelpRequest(s)
    \/ \E s \in Slots, u \in Users, r \in ReqIds : RouteInterest(s, u, r)
    \/ \E s \in Slots : markInterest(s)

SpecInterest == InitOpen /\ [][NextInterest]_vars

\* approve, edit and interest calls on one request as its end date passes
NextExpiry ==
    \/ Tick
    \/ \E s \in Slots, u \in Users, r \in ReqIds : RouteApprove(s, u, r)
    \/ \E s \in Slots : approveHelpRequest(s)
    \/ \E s \in Slots, u \in Users, r \in ReqIds, t \in Titles :
          RouteEdit(s, u, r, t)
    \/ \E s \in Slots : updateHelpRequest(s)
    \/ \E s \in Slots, u \in Users, r \in ReqIds : RouteInterest(s, u, r)
    \/ \E s \in Slots : markInterest(s)

SpecExpiry == InitExpiry /\ [][NextExpiry]_vars

\* --------------------------------------------------------------- rating
Stars == {1, 5}              \* stars a caller sends (Joi: 1 to 5)
Comments == {""}             \* comment || "" of a call without comment

\* rateHelpRequest: ratingData
ratingData(stars, comment, t) ==
    [stars |-> stars, comment |-> comment, createdAt |-> t]

\* rateHelpRequest without its status check
rateAccess_anyStatus(doc, userId) ==
    IF ~isOwner(doc, userId) /\ ~isDonor(doc, userId) THEN "Forbidden"
    ELSE "next"

\* rateHelpRequest, the checks on the loaded document: "next" when the
\* rating is assigned, else the response it sends
rateAccess(doc, userId) ==
    IF doc.status # COMPLETED THEN "InvalidState"
    ELSE IF ~isOwner(doc, userId) /\ ~isDonor(doc, userId) THEN "Forbidden"
    ELSE "next"

\* rateHelpRequest: the path of helpRequest.rating the call assigns
ratingPath(doc, userId) ==
    IF isOwner(doc, userId) THEN "recipientRating" ELSE "donorRating"

\* POST /requests/:requestId/rate, up to save(): authenticateToken,
\* validate(helpRequestValidation.rate), findById, the status and party
\* checks and the assignment of ratingData on the loaded document
RouteRate(s, userId, requestId, stars, comment) ==
    /\ FreeSlot(s)
    /\ userId \in users
    /\ IF requestId \notin DOMAIN store
       THEN Answer(s, "rate", userId, requestId, "NotFound")
       ELSE LET v == rateAccess(store[requestId], userId)
                path == ratingPath(store[requestId], userId)
            IN IF v # "next"
               THEN Answer(s, "rate", userId, requestId, v)
               ELSE Pending(s, "rate", userId, requestId,
                            [f \in {path} |-> ratingData(stars, comment, now)])
    /\ UNCHANGED <<store, users, used, now>>

\* rateHelpRequest: helpRequest.save() and the response
rateHelpRequest(s) ==
    /\ slot[s].pc = "loaded"
    /\ slot[s].op = "rate"
    /\ LET h == slot[s]
       IN IF h.rid \notin DOMAIN store
          THEN /\ Answer(s, "rate", h.actor, h.rid, "ServerError")
               /\ UNCHANGED store
          ELSE /\ store' = save(store, h.rid, h.arg)
               /\ Answer(s, "rate", h.actor, h.rid, "OK")
    /\ UNCHANGED <<users, used, now>>

\* approve, complete and rate calls on one request
NextRate ==
    \/ Tick
    \/ \E s \in Slots, u \in Users, r \in ReqIds : RouteApprove(s, u, r)
    \/ \E s \in Slots : approveHelpRequest(s)
    \/ \E s \in Slots, u \in Users, r \in ReqIds : RouteComplete(s, u, r)
    \/ \E s \in Slots : completeHelpRequest(s)
    \/ \E s \in Slots, u \in Users, r \in ReqIds, n \in Stars, c \in Comments :
          RouteRate(s, u, r, n, c)
    \/ \E s \in Slots : rateHelpRequest(s)

SpecRate == InitOpen /\ [][NextRate]_vars

\* ------------------------------------------------------- notes and flag
Contents == {"on my way"}            \* note texts a caller sends
Reasons == {"spam", "fraud"}         \* flag reasons a caller sends

\* addNote whose party check forgets the donor
noteAccess_recipientOnly(doc, userId) ==
    IF ~isOwner(doc, userId) THEN "Forbidden" ELSE "next"

\* addNote, the check on the loaded document: "next" when the note is
\* pushed, else the response it sends
noteAccess(doc, userId) ==
    IF ~isOwner(doc, userId) /\ ~isDonor(doc, userId) THEN "Forbidden"
    ELSE "next"

\* helpRequestSchema.methods.addNote: the element it pushes on notes before
\* save() (createdAt defaults to Date.now)
addNote(authorId, content, t) ==
    << [author |-> authorId, content |-> content, createdAt |-> t] >>

\* POST /requests/:requestId/notes, up to save(): authenticateToken,
\* validate(helpRequestValidation.addNote), findById, the party check and
\* the push on the loaded document
RouteNote(s, userId, requestId, content) ==
    /\ FreeSlot(s)
    /\ userId \in users
    /\ IF requestId \notin DOMAIN store
       THEN Answer(s, "note", userId, requestId, "NotFound")
       ELSE LET v == noteAccess(store[requestId], userId)
            IN IF v # "next"
               THEN Answer(s, "note", userId, requestId, v)
               ELSE /\ Len(store[requestId].notes) < MaxNotes
                    /\ Pending(s, "note", userId, requestId,
                               addNote(userId, content, now))
    /\ UNCHANGED <<store, users, used, now>>

\* addNote (controller): the save() of helpRequest.addNote() and the
\* response
addNoteSave(s) ==
    /\ slot[s].pc = "loaded"
    /\ slot[s].op = "note"
    /\ LET h == slot[s]
       IN IF h.rid \notin DOMAIN store
          THEN /\ Answer(s, "note", h.actor, h.rid, "ServerError")
               /\ UNCHANGED store
          ELSE /\ store' = savePush(store, h.rid, "notes", h.arg)
               /\ Answer(s, "note", h.actor, h.rid, "OK")
    /\ UNCHANGED <<users, used, now>>

\* flag() that keeps the first flag of a request
flag_keepsFirst(doc, reason, flaggedBy, t) ==
    IF doc.flagged.isFlagged THEN [flagged |-> doc.flagged]
    ELSE [flagged |-> [isFlagged |-> TRUE, reason |-> reason,
                       flaggedBy |-> flaggedBy, flaggedAt |-> t]]

\* helpRequestSchema.methods.flag: the path it assigns before save()
flag(doc, reason, flaggedBy, t) ==
    [flagged |-> [isFlagged |-> TRUE, reason |-> reason,
                  flaggedBy |-> flaggedBy, flaggedAt |-> t]]

\* POST /requests/:requestId/flag, up to save(): authenticateToken,
\* validate(helpRequestValidation.flag), findById and flag() on the loaded
\* document
RouteFlag(s, userId, requestId, reason) ==
    /\ FreeSlot(s)
    /\ userId \in users
    /\ IF requestId \notin DOMAIN store
       THEN Answer(s, "flag", userId, requestId, "NotFound")
       ELSE Pending(s, "flag", userId, requestId,
                    flag(store[requestId], reason, userId, now))
    /\ UNCHANGED <<store, users, used, now>>

\* flagHelpRequest: the save() of helpRequest.flag() and the response
flagHelpRequest(s) ==
    /\ slot[s].pc = "loaded"
    /\ slot[s].op = "flag"
    /\ LET h == slot[s]
       IN IF h.rid \notin DOMAIN store
          THEN /\ Answer(s, "flag", h.actor, h.rid, "ServerError")
               /\ UNCHANGED store
          ELSE /\ store' = save(store, h.rid, h.arg)
               /\ Answer(s, "flag", h.actor, h.rid, "OK")
    /\ UNCHANGED <<users, used, now>>

\* approve, complete and note calls on one request at one clock value
NextNotes ==
    \/ \E s \in Slots, u \in Users, r \in ReqIds : RouteApprove(s, u, r)
    \/ \E s \in Slots : approveHelpRequest(s)
    \/ \E s \in Slots, u \in Users, r \in ReqIds : RouteComplete(s, u, r)
    \/ \E s \in Slots : completeHelpRequest(s)
    \/ \E s \in Slots, u \in Users, r \in ReqIds, c \in Contents :
          RouteNote(s, u, r, c)
    \/ \E s \in Slots : addNoteSave(s)

SpecNotes == InitOpen /\ [][NextNotes]_vars

\* approve, complete and flag calls on one request
NextFlag ==
    \/ Tick
    \/ \E s \in Slots, u \in Users, r \in ReqIds : RouteApprove(s, u, r)
    \/ \E s \in Slots : approveHelpRequest(s)
    \/ \E s \in Slots, u \in Users, r \in ReqIds : RouteComplete(s, u, r)
    \/ \E s \in Slots : completeHelpRequest(s)
    \/ \E s \in Slots, u \in Users, r \in ReqIds, c \in Reasons :
          RouteFlag(s, u, r, c)
    \/ \E s \in Slots : flagHelpRequest(s)

\* The store holds one open request of u1 on which u3 has marked interest
\* and u1 has written a note.
InitNoted ==
    /\ LET fresh == helpRequestSchema("u1", 1, MaxTime)
       IN store = [r \in ReqIds |->
                     [fresh EXCEPT
                         !.interested = markInterested(fresh, "u3", 1),
                         !.notes = addNote("u1", "on my way", 1)]]
    /\ users = Users
    /\ used = ReqIds
    /\ now = 1
    /\ slot = [s \in Slots |-> Idle]
    /\ resp = NoResp

SpecFlag == InitNoted /\ [][NextFlag]_vars

\* -------------------------------------------------------------- listing
\* Pickup locations and profile locations lie on one meridian (the
\* longitude is the same non-zero value everywhere). A latitude is counted
\* in steps of 0.05 degrees: 800 is 40.00 degrees, 0 is the equator.
Latitudes == {0, 800, 801, 802}
NoCoord == -1       \* no latitude in the query: parseFloat gives NaN
NoDistance == -1    \* distance: null

\* The requests the listing reads
ListIds == {"r1", "r2"}
Radii == {5, 10}                   \* kilometres; 10 is the default
QueryLatitudes == {NoCoord, 801}   \* latitude/longitude of the query
Pages == {1, 2}
Limits == {1, 2}
StatusFilters == {"any", OPEN, APPROVED, COMPLETED}   \* "any": none sent

\* User.coordinates.latitude of the three accounts
coordinates(userId) ==
    CASE userId = "u1" -> 800
      [] userId = "u2" -> 801
      [] OTHER -> 0

\* JavaScript truthiness of a parsed coordinate: NaN and 0 are falsy
truthy(x) == x # NoCoord /\ x # 0

\* helpers.calculateDistance for two points of the meridian, in hundredths
\* of a kilometre: 0.05 degrees are 5.56 km
calculateDistance(lat1, lat2) ==
    556 * (IF lat1 >= lat2 THEN lat1 - lat2 ELSE lat2 - lat1)

\* A request document with its pickupLocation.coordinates.latitude and its
\* createdAt, the latter counted in creation order
pickupAt(doc, latitude, createdAt) ==
    [f \in DOMAIN doc \cup {"latitude", "createdAt"} |->
        IF f = "latitude" THEN latitude
        ELSE IF f = "createdAt" THEN createdAt
        ELSE doc[f]]

\* getHelpRequests: userLatitude / hasUserLocation after the query
\* parameters and the caller's profile were read
userLocation(latitude, userId) ==
    IF truthy(latitude) THEN [has |-> TRUE, latitude |-> latitude]
    ELSE IF userId \in users
         THEN [has |-> TRUE, latitude |-> coordinates(userId)]
         ELSE [has |-> FALSE, latitude |-> latitude]

\* hasUserLocation && userLatitude && userLongitude
located(loc) == loc.has /\ truthy(loc.latitude)

\* the query of getHelpRequests without the exclusion of the caller's own
\* requests
listQuery_includesOwn(userId, status, radius, loc, t) ==
    [ne |-> NoUser,
     status |-> status,
     geoWithin |-> radius # 5 /\ located(loc),
     center |-> loc.latitude,
     radius |-> radius,
     endDateGt |-> t]

\* the query of getHelpRequests with the $geoWithin condition for every
\* radius
listQuery_alwaysGeo(userId, status, radius, loc, t) ==
    [ne |-> userId,
     status |-> status,
     geoWithin |-> located(loc),
     center |-> loc.latitude,
     radius |-> radius,
     endDateGt |-> t]

\* getHelpRequests: the query object handed to HelpRequest.find
listQuery(userId, status, radius, loc, t) ==
    [ne |-> userId,
     status |-> status,
     geoWithin |-> radius # 5 /\ located(loc),
     center |-> loc.latitude,
     radius |-> radius,
     endDateGt |-> t]

\* getNearbyRequests: the query object handed to HelpRequest.find
nearbyQuery(userId, radius, t) ==
    [ne |-> userId,
     status |-> OPEN,
     geoWithin |-> TRUE,
     center |-> coordinates(userId),
     radius |-> radius,
     endDateGt |-> t]

\* a stored document matches a query object
matches(doc, q) ==
    /\ doc.recipientId # q.ne
    /\ q.status = "any" \/ doc.status = q.status
    /\ q.geoWithin =>
          calculateDistance(q.center, doc.latitude) <= 100 * q.radius
    /\ doc.endDate > q.endDateGt

\* countDocuments(query)
countDocuments(st, q) ==
    Cardinality({r \in DOMAIN st : matches(st[r], q)})

\* sort({createdAt: -1}) of ids whose documents have one priority
RECURSIVE newestFirst(_, _)
newestFirst(st, S) ==
    IF S = {} THEN << >>
    ELSE LET m == CHOOSE r \in S :
                     \A o \in S : st[o].createdAt <= st[r].createdAt
         IN << m >> \o newestFirst(st, S \ {m})

\* helpRequestSchema.priority: a String of the enum; a document stored
\* without one has the default
Priorities == {"low", "medium", "high", "critical"}
priority(doc) ==
    IF "priority" \in DOMAIN doc THEN doc.priority ELSE "medium"

\* A request document with its priority
withPriority(doc, p) ==
    [f \in DOMAIN doc \cup {"priority"} |->
        IF f = "priority" THEN p ELSE doc[f]]

\* the place of a priority in the ascending order of the strings, the order
\* in which the database compares the values of a String path
stringOrder(p) ==
    CASE p = "critical" -> 1
      [] p = "high" -> 2
      [] p = "low" -> 3
      [] p = "medium" -> 4

\* sort({priority: -1, createdAt: -1}) of the matching ids
RECURSIVE sortByPriority(_, _)
sortByPriority(st, S) ==
    IF S = {} THEN << >>
    ELSE LET top == {r \in S :
                        \A o \in S : stringOrder(priority(st[o])) <=
                                         stringOrder(priority(st[r]))}
         IN newestFirst(st, top) \o sortByPriority(st, S \ top)

\* slice(skip, skip + limit) of a list
slice(list, skip, limit) ==
    [i \in 1..(IF Len(list) <= skip THEN 0
               ELSE IF Len(list) - skip < limit THEN Len(list) - skip
               ELSE limit) |-> list[skip + i]]

\* HelpRequest.find(query).sort(...).limit(limit).skip(skip)
find(st, q, skip, limit) ==
    slice(sortByPriority(st, {r \in DOMAIN st : matches(st[r], q)}),
          skip, limit)

\* Array.prototype.sort((a, b) => a.distance - b.distance): stable
RECURSIVE sortByDistance(_)
sortByDistance(list) ==
    IF list = << >> THEN << >>
    ELSE LET i == CHOOSE k \in DOMAIN list :
                     /\ \A j \in DOMAIN list :
                            list[j].distance >= list[k].distance
                     /\ \A j \in 1..(k - 1) :
                            list[j].distance > list[k].distance
             rest == [k \in 1..(Len(list) - 1) |->
                         IF k < i THEN list[k] ELSE list[k + 1]]
         IN << list[i] >> \o sortByDistance(rest)

\* helpers.getPaginationInfo
getPaginationInfo(page, limit, total) ==
    LET totalPages == (total + limit - 1) \div limit
    IN [currentPage |-> page, totalPages |-> totalPages,
        totalItems |-> total, itemsPerPage |-> limit,
        hasNext |-> page < totalPages, hasPrev |-> page > 1]

\* res.json of a listing
Listing(op, actor, requests, pagination) ==
    [op |-> op, actor |-> actor, rid |-> NoRid, result |-> "OK",
     requests |-> requests, pagination |-> pagination]

\* getHelpRequests after authentication: the response it builds from the
\* query parameters, the caller's profile and one find. The filters on
\* category, priority, search and zipCode, which narrow the result further,
\* are not sent.
listResponse(userId, status, radius, latitude, page, limit) ==
    LET loc == userLocation(latitude, userId)
        query == listQuery(userId, status, radius, loc, now)
        requests == find(store, query, (page - 1) * limit, limit)
        requestsWithExtras ==
            [i \in DOMAIN requests |->
                [id |-> requests[i],
                 distance |->
                    IF located(loc)
                    THEN calculateDistance(loc.latitude,
                                           store[requests[i]].latitude)
                    ELSE NoDistance]]
        strict == located(loc) /\ radius # 5
        filtered ==
            IF strict
            THEN SelectSeq(requestsWithExtras,
                           LAMBDA x : x.distance <= 100 * radius)
            ELSE requestsWithExtras
        sorted == IF loc.has THEN sortByDistance(filtered) ELSE filtered
    IN IF strict
       THEN LET total == Len(sorted)
                lastPage == (total + limit - 1) \div limit
                actualPage == IF lastPage = 0 THEN 1
                              ELSE IF page < lastPage THEN page
                              ELSE lastPage
            IN Listing("list", userId,
                       slice(sorted, (actualPage - 1) * limit, limit),
                       getPaginationInfo(actualPage, limit, total))
       ELSE Listing("list", userId, sorted,
                    getPaginationInfo(page, limit,
                                      countDocuments(store, query)))

\* GET /requests: authenticateToken and getHelpRequests in one step. The
\* handler writes nothing.
getHelpRequests(userId, status, radius, latitude, page, limit) ==
    /\ userId \in users
    /\ resp' = listResponse(userId, status, radius, latitude, page, limit)
    /\ UNCHANGED <<store, users, used, now, slot>>

\* GET /users/nearby-requests: getNearbyRequests
getNearbyRequests(userId, radius, page, limit) ==
    /\ userId \in users
    /\ LET query == nearbyQuery(userId, radius, now)
           requests == find(store, query, (page - 1) * limit, limit)
           requestsWithDistance ==
               [i \in DOMAIN requests |->
                   [id |-> requests[i],
                    distance |->
                       calculateDistance(coordinates(userId),
                                         store[requests[i]].latitude)]]
       IN resp' = Listing("nearby", userId, requestsWithDistance,
                          getPaginationInfo(page, limit,
                              countDocuments(store, query)))
    /\ UNCHANGED <<store, users, used, now, slot>>

\* the paths written by a save() applied to a document
saved(doc, modified) == save(<< doc >>, 1, modified)[1]

\* The documents a request of recipientId can be stored as at the clock's
\* first value: open, approved by u3, or approved by u3 and completed
ListDocs(recipientId) ==
    LET fresh(e) == helpRequestSchema(recipientId, 1, e)
    IN UNION {{fresh(e),
               saved(fresh(e), approve("u3", 1)),
               saved(saved(fresh(e), approve("u3", 1)), complete(1))}
              : e \in EndDates}

\* The store holds a request of u1 at u1's place and a later one of u2, one
\* or two steps north of it.
InitList ==
    /\ \E d1 \in ListDocs("u1"), d2 \in ListDocs("u2"), l2 \in {801, 802} :
          store = [r \in ListIds |->
                      IF r = "r1" THEN pickupAt(d1, 800, 1)
                      ELSE pickupAt(d2, l2, 2)]
    /\ users = Users
    /\ used = ListIds
    /\ now = 1
    /\ slot = [s \in Slots |-> Idle]
    /\ resp = NoResp

NextList ==
    \/ Tick
    \/ \E u \in Users, st \in StatusFilters, rad \in Radii,
          lat \in QueryLatitudes, p \in Pages, l \in Limits :
          getHelpRequests(u, st, rad, lat, p, l)
    \/ \E u \in Users, rad \in Radii, p \in Pages, l \in Limits :
          getNearbyRequests(u, rad, p, l)

SpecList == InitList /\ [][NextList]_vars

\* ------------------------------------------- listing without an origin
\* The repository holds two versions of HelpController.getHelpRequests that
\* differ in what they do when neither the query nor the caller's profile
\* gives coordinates. The handler is split here at authenticateToken, whose
\* User.findById precedes the handler's own User.findById, so that the
\* caller's account can be deleted in between.

\* the fixed default location (19.0760, 72.8777) of the second version, to
\* the nearest latitude step and taken on the meridian of the stored
\* locations
Mumbai == 382

\* second version: userLatitude after the query parameters, the caller's
\* profile and the default location were read
userLocationOrDefault(latitude, userId) ==
    LET resolved == IF truthy(latitude) THEN latitude
                    ELSE IF userId \in users THEN coordinates(userId)
                    ELSE latitude
    IN IF truthy(resolved) THEN resolved ELSE Mumbai

\* second version: the query object, with $geoWithin for every radius
listQueryOrDefault(userId, status, radius, center, t) ==
    [ne |-> userId,
     status |-> status,
     geoWithin |-> truthy(center),
     center |-> center,
     radius |-> radius,
     endDateGt |-> t]

\* second version of getHelpRequests after authentication: the response
listResponseOrDefault(userId, status, radius, latitude, page, limit) ==
    LET userLatitude == userLocationOrDefault(latitude, userId)
        query == listQueryOrDefault(userId, status, radius, userLatitude, now)
        requests == find(store, query, (page - 1) * limit, limit)
        requestsWithExtras ==
            [i \in DOMAIN requests |->
                [id |-> requests[i],
                 distance |-> calculateDistance(userLatitude,
                                  store[requests[i]].latitude)]]
    IN Listing("list", userId, sortByDistance(requestsWithExtras),
               getPaginationInfo(page, limit, countDocuments(store, query)))

\* GET /requests up to the call of getHelpRequests: authenticateToken
RouteList(s, userId, status, radius, latitude, page, limit) ==
    /\ FreeSlot(s)
    /\ userId \in users
    /\ Pending(s, "list", userId, NoRid,
               [status |-> status, radius |-> radius, latitude |-> latitude,
                page |-> page, limit |-> limit])
    /\ UNCHANGED <<store, users, used, now>>

\* getHelpRequests of the first version, called by the route
getHelpRequestsNoFallback(s) ==
    /\ slot[s].pc = "loaded"
    /\ slot[s].op = "list"
    /\ LET h == slot[s]
       IN resp' = listResponse(h.actor, h.arg.status, h.arg.radius,
                               h.arg.latitude, h.arg.page, h.arg.limit)
    /\ slot' = [slot EXCEPT ![s] = Idle]
    /\ UNCHANGED <<store, users, used, now>>

\* getHelpRequests of the second version, called by the route
getHelpRequestsDefaultLocation(s) ==
    /\ slot[s].pc = "loaded"
    /\ slot[s].op = "list"
    /\ LET h == slot[s]
       IN resp' = listResponseOrDefault(h.actor, h.arg.status, h.arg.radius,
                                        h.arg.latitude, h.arg.page,
                                        h.arg.limit)
    /\ slot' = [slot EXCEPT ![s] = Idle]
    /\ UNCHANGED <<store, users, used, now>>

\* Listings that ask for the first page of two items, with and without
\* coordinates in the query, while accounts are deleted.
NextOrigin ==
    \/ \E s \in Slots, u \in Users, rad \in Radii, lat \in QueryLatitudes :
          RouteList(s, u, "any", rad, lat, 1, 2)
    \/ \E s \in Slots : getHelpRequestsNoFallback(s)
    \/ \E s \in Slots : getHelpRequestsDefaultLocation(s)
    \/ \E u \in Users, p \in BOOLEAN : deleteAccount(u, p)

SpecOrigin == InitList /\ [][NextOrigin]_vars

\* Listings with every filter, radius, page and limit, handled one at a
\* time while the clock advances.
NextEscape ==
    \/ Tick
    \/ \E u \in Users, st \in StatusFilters, rad \in Radii,
          lat \in QueryLatitudes, p \in Pages, l \in Limits :
          RouteList(1, u, st, rad, lat, p, l)
    \/ \E s \in Slots : getHelpRequestsNoFallback(s)

SpecEscape == InitList /\ [][NextEscape]_vars

\* ----------------------------------------------- ranking of the listing
\* latitude of the query: none, the equator, u1's place
OriginLatitudes == {NoCoord, 0, 800}

\* The store holds two open requests that end at the clock's last value:
\* one of u1 at u1's place and a later one of u2 one step north of it, each
\* with any priority.
InitRank ==
    /\ \E p1 \in Priorities, p2 \in Priorities :
          store = [r \in ListIds |->
                      IF r = "r1"
                      THEN withPriority(
                              pickupAt(helpRequestSchema("u1", 1, MaxTime),
                                       800, 1), p1)
                      ELSE withPriority(
                              pickupAt(helpRequestSchema("u2", 1, MaxTime),
                                       801, 2), p2)]
    /\ users = Users
    /\ used = ListIds
    /\ now = 1
    /\ slot = [s \in Slots |-> Idle]
    /\ resp = NoResp

\* Listings with and without coordinates in the query, handled one at a
\* time while accounts are deleted.
NextRank ==
    \/ \E u \in Users, rad \in Radii, lat \in OriginLatitudes,
          p \in Pages, l \in Limits :
          RouteList(1, u, "any", rad, lat, p, l)
    \/ \E s \in Slots : getHelpRequestsNoFallback(s)
    \/ \E u \in Users, p \in BOOLEAN : deleteAccount(u, p)

SpecRank == InitRank /\ [][NextRank]_vars

\* ------------------------------------------- items and pickup location
\* The HelpItem collection, in the order find() returns its documents; it
\* does not change. "i5" is the id of no catalog item.
HelpItems ==
    << [id |-> "i1", category |-> "food", isActive |-> TRUE],
       [id |-> "i2", category |-> "food", isActive |-> TRUE],
       [id |-> "i3", category |-> "medical", isActive |-> TRUE],
       [id |-> "i4", category |-> "clothing", isActive |-> FALSE] >>
ItemIds == << "i1", "i2", "i3", "i4", "i5" >>
Categories == {"clothing"}     \* the category a caller sends

\* items of a request body: the item ids of 1 to MaxItems entries, written
\* in catalog order (the handlers do not read the order of the entries)
ItemLists ==
    {[k \in DOMAIN l |-> ItemIds[l[k]]] :
       l \in {m \in UNION {[1..n -> DOMAIN ItemIds] : n \in 1..MaxItems} :
                 \A i \in DOMAIN m, j \in DOMAIN m : i < j => m[i] <= m[j]}}

\* a find without the isActive condition
validItems_inactiveToo(itemIds) ==
    SelectSeq(HelpItems,
              LAMBDA item : \E k \in DOMAIN itemIds : itemIds[k] = item.id)

\* HelpItem.find({_id: {$in: itemIds}, isActive: true})
validItems(itemIds) ==
    SelectSeq(HelpItems,
              LAMBDA item : /\ item.isActive
                            /\ \E k \in DOMAIN itemIds : itemIds[k] = item.id)

\* Object.keys(categoryCounts): the categories in the order of their first
\* item
RECURSIVE categoryKeys(_)
categoryKeys(items) ==
    IF items = << >> THEN << >>
    ELSE LET init == SubSeq(items, 1, Len(items) - 1)
             keys == categoryKeys(init)
             c == items[Len(items)].category
         IN IF \E k \in DOMAIN keys : keys[k] = c THEN keys
            ELSE Append(keys, c)

\* categoryCounts[category]
categoryCounts(items, category) ==
    Cardinality({k \in DOMAIN items : items[k].category = category})

\* a reduce that always keeps the later key
mostCommonCategory_lastKey(items, keys) == keys[Len(keys)]

\* Object.keys(categoryCounts).reduce((a, b) =>
\*    categoryCounts[a] > categoryCounts[b] ? a : b)
RECURSIVE mostCommonCategory(_, _)
mostCommonCategory(items, keys) ==
    IF Len(keys) = 1 THEN keys[1]
    ELSE LET a == mostCommonCategory(items, SubSeq(keys, 1, Len(keys) - 1))
             b == keys[Len(keys)]
         IN IF categoryCounts(items, a) > categoryCounts(items, b)
            THEN a ELSE b

\* address and zipCode of a profile; the address is optional and u3 has none
NoAddress == "none"
address(userId) ==
    CASE userId = "u1" -> "a1"
      [] userId = "u2" -> "a2"
      [] OTHER -> NoAddress
zipCode(userId) ==
    CASE userId = "u1" -> "z1"
      [] userId = "u2" -> "z2"
      [] OTHER -> "z3"

\* the location of the user's profile as createHelpRequest copies it
profileLocation(userId) ==
    [address |-> address(userId), latitude |-> coordinates(userId),
     zipCode |-> zipCode(userId)]
NoLocation == [address |-> NoAddress, latitude |-> NoCoord, zipCode |-> "none"]

\* Request bodies of POST /requests: the fields of the create schema, with
\* an end date that is or is not after the start date, and, beside them, a
\* recipientId and a pickupLocation the caller may add
CreateBodies ==
    [title : {1}, items : ItemLists, category : Categories,
     endDate : {1, MaxTime}, recipientId : {NoUser},
     pickupLocation : {NoLocation}]
    \cup
    [title : {1}, items : ItemLists, category : Categories,
     endDate : {1, MaxTime}, recipientId : {"u2"},
     pickupLocation : {[address |-> "a9", latitude |-> 802,
                        zipCode |-> "z9"]}]

\* requestData built from the raw body, the caller's values winning
requestData_payloadWins(body, userId) ==
    [title |-> body.title, items |-> body.items, category |-> body.category,
     endDate |-> body.endDate,
     recipientId |-> IF body.recipientId # NoUser THEN body.recipientId
                     ELSE userId,
     pickupLocation |-> IF body.pickupLocation # NoLocation
                        THEN body.pickupLocation
                        ELSE profileLocation(userId)]

\* validate(helpRequestValidation.create) with stripUnknown, then
\* requestData = {...req.body, recipientId, pickupLocation}
requestData(body, userId) ==
    [title |-> body.title, items |-> body.items, category |-> body.category,
     endDate |-> body.endDate,
     recipientId |-> userId,
     pickupLocation |-> profileLocation(userId)]

\* new HelpRequest(requestData)
newHelpRequest(data) ==
    LET base == helpRequestSchema(data.recipientId, data.title, data.endDate)
        more == [items |-> data.items, category |-> data.category,
                 pickupLocation |-> data.pickupLocation]
    IN [f \in DOMAIN base \cup DOMAIN more |->
           IF f \in DOMAIN more THEN more[f] ELSE base[f]]

\* POST /requests: validate(create), createHelpRequest with its item check,
\* its category and helpRequest.save(), in one step
createHelpRequestItems(userId, body) ==
    /\ userId \in users
    /\ used # ReqIds
    /\ LET id == CHOOSE r \in ReqIds : r \notin used
           data == requestData(body, userId)
           valid == validItems(data.items)
           doc == newHelpRequest(
                     [data EXCEPT !.category =
                         mostCommonCategory(valid, categoryKeys(valid))])
       IN IF body.endDate <= now
          THEN /\ resp' = Response("create", userId, NoRid, "ValidationError")
               /\ UNCHANGED <<store, used>>
          ELSE IF Len(valid) # Len(data.items)
          THEN /\ resp' = Response("create", userId, NoRid, "ItemsUnavailable")
               /\ UNCHANGED <<store, used>>
          ELSE IF doc.pickupLocation.address = NoAddress
          THEN /\ resp' = Response("create", userId, NoRid, "ServerError")
               /\ UNCHANGED <<store, used>>
          ELSE /\ store' = [r \in DOMAIN store \cup {id} |->
                               IF r = id THEN doc ELSE store[r]]
               /\ used' = used \cup {id}
               /\ resp' = Response("create", userId, id, "OK")
    /\ UNCHANGED <<users, now, slot>>

\* PUT /requests/:requestId with items, up to save(): authenticateToken,
\* validateHelpRequestAccess("edit"), the item check, updates.category and
\* Object.assign(helpRequest, updates). The new items array is a modified
\* path whatever it holds.
RouteEditItems(s, userId, requestId, items) ==
    /\ FreeSlot(s)
    /\ userId \in users
    /\ IF requestId \notin DOMAIN store
       THEN Answer(s, "edit", userId, requestId, "NotFound")
       ELSE LET v == validateHelpRequestAccess("edit", store[requestId], userId)
                valid == validItems(items)
                category == mostCommonCategory(valid, categoryKeys(valid))
                modified == assign(store[requestId], [category |-> category])
            IN IF v # "next"
               THEN Answer(s, "edit", userId, requestId, v)
               ELSE IF Len(valid) # Len(items)
               THEN Answer(s, "edit", userId, requestId, "ItemsUnavailable")
               ELSE Pending(s, "edit", userId, requestId,
                            [f \in DOMAIN modified \cup {"items"} |->
                                IF f = "items" THEN items ELSE modified[f]])
    /\ UNCHANGED <<store, users, used, now>>

NextCreate ==
    \/ \E u \in Users, b \in CreateBodies : createHelpRequestItems(u, b)
    \/ \E s \in Slots, u \in Users, r \in ReqIds, l \in ItemLists :
          RouteEditItems(s, u, r, l)
    \/ \E s \in Slots, u \in Users, r \in ReqIds, t \in Titles :
          RouteEdit(s, u, r, t)
    \/ \E s \in Slots : updateHelpRequest(s)

SpecCreate == Init /\ [][NextCreate]_vars

\* ------------------------------------------------ approval notification
\* the answer of approveHelpRequest when a failed delivery reaches the
\* handler's outer catch
afterNotification_uncaught(delivered) ==
    IF delivered THEN "OK" ELSE "ServerError"

\* approveHelpRequest after approve() was saved: the try/catch around
\* emailService.sendHelpRequestApproved logs a failed delivery, then the
\* handler answers
afterNotification(delivered) == "OK"

\* res.json of approveHelpRequest, with the outcome of the delivery beside it
Notified(response, delivered) ==
    [f \in DOMAIN response \cup {"delivered"} |->
        IF f = "delivered" THEN delivered ELSE response[f]]

\* approveHelpRequest: helpRequest.approve(req.user.userId), the
\* notification of the recipient, which is or is not delivered, and the
\* response
approveHelpRequestNotify(s, delivered) ==
    /\ slot[s].pc = "loaded"
    /\ slot[s].op = "approve"
    /\ LET h == slot[s]
       IN IF h.rid \notin DOMAIN store
          THEN /\ resp' = Response("approve", h.actor, h.rid, "ServerError")
               /\ UNCHANGED store
          ELSE /\ store' = save(store, h.rid, approve(h.actor, now))
               /\ resp' = Notified(Response("approve", h.actor, h.rid,
                                            afterNotification(delivered)),
                                   delivered)
    /\ slot' = [slot EXCEPT ![s] = Idle]
    /\ UNCHANGED <<users, used, now>>

NextNotify ==
    \/ Tick
    \/ \E s \in Slots, u \in Users, r \in ReqIds : RouteApprove(s, u, r)
    \/ \E s \in Slots, d \in BOOLEAN : approveHelpRequestNotify(s, d)
    \/ \E s \in Slots, u \in Users, r \in ReqIds : RouteComplete(s, u, r)
    \/ \E s \in Slots : completeHelpRequest(s)
    \/ \E s \in Slots, u \in Users, r \in ReqIds : RouteDelete(s, u, r)
    \/ \E s \in Slots : deleteHelpRequest(s)

SpecNotify == InitOpen /\ [][NextNotify]_vars

\* ------------------------------------------------------- the detail view
\* The largest metadata.views the stored request is followed to
MaxViews == 2

\* A request document with its metadata.views
withViews(doc, views) ==
    [f \in DOMAIN doc \cup {"views"} |->
        IF f = "views" THEN views ELSE doc[f]]

\* helpRequestSchema.methods.incrementViews: the path it assigns before
\* save()
incrementViews(doc) == [views |-> doc.views + 1]

\* getHelpRequest: canApprove of responseData
canApprove(doc, userId) ==
    doc.recipientId # userId /\ doc.status = OPEN

\* getHelpRequest: canEdit of responseData
canEdit(doc, userId) ==
    doc.recipientId = userId /\ doc.status = OPEN

\* res.json of getHelpRequest: the status and the views of the document
\* and the two flags computed for the viewer
Viewed(response, doc, userId) ==
    LET data == [status |-> doc.status,
                 views |-> doc.views,
                 canApprove |-> canApprove(doc, userId),
                 canEdit |-> canEdit(doc, userId)]
    IN [f \in DOMAIN response \cup DOMAIN data |->
           IF f \in DOMAIN data THEN data[f] ELSE response[f]]

\* GET /requests/:requestId: authenticateToken, then getHelpRequest loads
\* the document, counts the view of a caller who is not its recipient and
\* answers with the document and the viewer's flags
getHelpRequest(userId, requestId) ==
    /\ userId \in users
    /\ IF requestId \notin DOMAIN store
       THEN /\ resp' = Response("view", userId, requestId, "NotFound")
            /\ UNCHANGED store
       ELSE LET loaded == store[requestId]
                modified == IF loaded.recipientId # userId
                            THEN incrementViews(loaded)
                            ELSE << >>
                helpRequest == saved(loaded, modified)
            IN /\ loaded.recipientId # userId => loaded.views < MaxViews
               /\ store' = save(store, requestId, modified)
               /\ resp' = Viewed(Response("view", userId, requestId, "OK"),
                                 helpRequest, userId)
    /\ UNCHANGED <<users, used, now, slot>>

\* The store holds one open request of u1 that nobody has viewed.
InitView ==
    /\ store = [r \in ReqIds |->
                   withViews(helpRequestSchema("u1", 1, MaxTime), 0)]
    /\ users = Users
    /\ used = ReqIds
    /\ now = 1
    /\ slot = [s \in Slots |-> Idle]
    /\ resp = NoResp

\* The request is viewed while it is approved, completed and edited.
NextView ==
    \/ \E s \in Slots, u \in Users, r \in ReqIds : RouteApprove(s, u, r)
    \/ \E s \in Slots : approveHelpRequest(s)
    \/ \E s \in Slots, u \in Users, r \in ReqIds : RouteComplete(s, u, r)
    \/ \E s \in Slots : completeHelpRequest(s)
    \/ \E s \in Slots, u \in Users, r \in ReqIds, t \in Titles :
          RouteEdit(s, u, r, t)
    \/ \E s \in Slots : updateHelpRequest(s)
    \/ \E u \in Users, r \in ReqIds : getHelpRequest(u, r)

SpecView == InitView /\ [][NextView]_vars

\* ---------------------------------------------------- patches of an edit
\* helpRequestValidation.update: the paths of a stored document that the
\* update schema has a key for (availabilityWindow holds endDate)
UpdateKeys == {"title", "items", "priority", "endDate"}

\* Request bodies of PUT /requests/:requestId: a title and, beside it, the
\* lifecycle paths and a pickupLocation the caller may add
EditBodies ==
    {[title |-> t] : t \in Titles}
    \cup
    [title : Titles, recipientId : {"u2"}, donorId : {NoUser, "u1"},
     status : {OPEN, COMPLETED}, approvedAt : {NoTime},
     completedAt : {MaxTime},
     pickupLocation : {[address |-> "a9", latitude |-> 802,
                        zipCode |-> "z9"]}]

\* a validation that keeps the keys the schema does not know
stripUnknown_keepsAll(body) == body

\* validate(helpRequestValidation.update) with stripUnknown: req.body after
\* the middleware holds the keys of the schema only
stripUnknown(body) ==
    [f \in DOMAIN body \cap UpdateKeys |-> body[f]]

\* PUT /requests/:requestId with a body that has no items, up to save():
\* authenticateToken, validateHelpRequestAccess("edit"),
\* validate(helpRequestValidation.update) and
\* Object.assign(helpRequest, updates) on the loaded document
RouteEditBody(s, userId, requestId, body) ==
    /\ FreeSlot(s)
    /\ userId \in users
    /\ IF requestId \notin DOMAIN store
       THEN Answer(s, "edit", userId, requestId, "NotFound")
       ELSE LET v == validateHelpRequestAccess("edit", store[requestId], userId)
                updates == stripUnknown(body)
                modified == assign(store[requestId], updates)
            IN IF v # "next"
               THEN Answer(s, "edit", userId, requestId, v)
               ELSE IF DOMAIN modified = {}
               THEN Answer(s, "edit", userId, requestId, "OK")
               ELSE Pending(s, "edit", userId, requestId, modified)
    /\ UNCHANGED <<store, users, used, now>>

\* The store holds one open request of u1, created with one food item and
\* stored at the place of u1's profile.
InitPatch ==
    /\ store = [r \in ReqIds |->
                   newHelpRequest(
                      [title |-> 1, items |-> << "i1" >>, category |-> "food",
                       endDate |-> MaxTime, recipientId |-> "u1",
                       pickupLocation |-> profileLocation("u1")])]
    /\ users = Users
    /\ used = ReqIds
    /\ now = 1
    /\ slot = [s \in Slots |-> Idle]
    /\ resp = NoResp

\* The request is edited while it is approved and completed.
NextPatch ==
    \/ Tick
    \/ \E s \in Slots, u \in Users, r \in ReqIds : RouteApprove(s, u, r)
    \/ \E s \in Slots : approveHelpRequest(s)
    \/ \E s \in Slots, u \in Users, r \in ReqIds : RouteComplete(s, u, r)
    \/ \E s \in Slots : completeHelpRequest(s)
    \/ \E s \in Slots, u \in Users, r \in ReqIds, b \in EditBodies :
          RouteEditBody(s, u, r, b)
    \/ \E s \in Slots : updateHelpRequest(s)

SpecPatch == InitPatch /\ [][NextPatch]_vars

\* ------------------------------------------- the body of a create call
\* helpRequestValidation.create with the lifecycle paths among its keys
CreateKeys_withLifecycle ==
    {"title", "items", "priority", "category", "endDate",
     "status", "donorId", "approvedAt", "completedAt"}

\* helpRequestValidation.create: the paths of a stored document that the
\* create schema has a key for (availabilityWindow holds endDate)
CreateKeys == {"title", "items", "priority", "category", "endDate"}

\* Request bodies of POST /requests: the fields of the create schema and,
\* beside them, lifecycle, notes, rating and metadata paths the caller may
\* add
FreshBodies ==
    [title : {1}, items : ItemLists, category : Categories, endDate : {MaxTime}]
    \cup
    [title : {1}, items : ItemLists, category : Categories, endDate : {MaxTime},
     status : {APPROVED, COMPLETED}, donorId : {"u2"}, approvedAt : {1},
     completedAt : {1},
     notes : {<< [author |-> "u2", content |-> 1, createdAt |-> 1] >>},
     recipientRating : {[stars |-> 5, comment |-> "", createdAt |-> 1]},
     donorRating : {[stars |-> 5, comment |-> "", createdAt |-> 1]},
     views : {7},
     interested : {<< [userId |-> "u2", interestedAt |-> 1] >>}]

\* validate(helpRequestValidation.create) with stripUnknown: req.body after
\* the middleware holds the keys of the schema only
validatedCreate(body) ==
    [f \in DOMAIN body \cap CreateKeys |-> body[f]]

\* requestData = {...req.body, recipientId, pickupLocation}, then
\* requestData.category = the most common category of the valid items
spreadRequestData(body, userId, category) ==
    LET own == [recipientId |-> userId,
                pickupLocation |-> profileLocation(userId),
                category |-> category]
    IN [f \in DOMAIN body \cup DOMAIN own |->
           IF f \in DOMAIN own THEN own[f] ELSE body[f]]

\* new HelpRequest(requestData): every schema path that requestData holds
\* is set from it, the others take the schema's defaults
construct(data) ==
    LET defaults == withViews(newHelpRequest(data), 0)
    IN [f \in DOMAIN defaults |->
           IF f \in DOMAIN data THEN data[f] ELSE defaults[f]]

\* POST /requests with any body: validate(create), createHelpRequest with
\* its item check, its category and helpRequest.save(), in one step
createHelpRequestBody(userId, body) ==
    /\ userId \in users
    /\ used # ReqIds
    /\ LET id == CHOOSE r \in ReqIds : r \notin used
           validated == validatedCreate(body)
           valid == validItems(validated.items)
           doc == construct(
                     spreadRequestData(validated, userId,
                        mostCommonCategory(valid, categoryKeys(valid))))
       IN IF validated.endDate <= now
          THEN /\ resp' = Response("create", userId, NoRid, "ValidationError")
               /\ UNCHANGED <<store, used>>
          ELSE IF Len(valid) # Len(validated.items)
          THEN /\ resp' = Response("create", userId, NoRid, "ItemsUnavailable")
               /\ UNCHANGED <<store, used>>
          ELSE IF doc.pickupLocation.address = NoAddress
          THEN /\ resp' = Response("create", userId, NoRid, "ServerError")
               /\ UNCHANGED <<store, used>>
          ELSE /\ store' = [r \in DOMAIN store \cup {id} |->
                               IF r = id THEN doc ELSE store[r]]
               /\ used' = used \cup {id}
               /\ resp' = Response("create", userId, id, "OK")
    /\ UNCHANGED <<users, now, slot>>

\* Requests are created from any body, then approved and completed.
NextFresh ==
    \/ Tick
    \/ \E u \in Users, b \in FreshBodies : createHelpRequestBody(u, b)
    \/ \E s \in Slots, u \in Users, r \in ReqIds : RouteApprove(s, u, r)
    \/ \E s \in Slots : approveHelpRequest(s)
    \/ \E s \in Slots, u \in Users, r \in ReqIds : RouteComplete(s, u, r)
    \/ \E s \in Slots : completeHelpRequest(s)

SpecFresh == Init /\ [][NextFresh]_vars

\* ================================================================ claims
IsPending(s, op) == slot[s].pc = "loaded" /\ slot[s].op = op
Stored(r) == r \in DOMAIN store

\* C1: of two concurrent approve calls by different non-owner actors that
\* both loaded the same open request, the one that saves first is answered
\* with success and becomes donorId; the one that saves after the other
\* actor's success is answered with Conflict and leaves donorId alone.
C1_RaceLost(s) ==
    /\ IsPending(s, "approve")
    /\ Stored(slot[s].rid)
    /\ store[slot[s].rid].status = APPROVED
    /\ store[slot[s].rid].donorId # slot[s].actor

C1_SingleApprovalUnderRace ==
    [][\A s \in Slots :
          (approveHelpRequest(s) /\ Stored(slot[s].rid)) =>
             IF C1_RaceLost(s)
             THEN /\ resp'.result = "Conflict"
                  /\ store'[slot[s].rid].donorId = store[slot[s].rid].donorId
             ELSE store[slot[s].rid].status = OPEN =>
                     /\ resp'.result = "OK"
                     /\ store'[slot[s].rid].donorId = slot[s].actor]_vars

\* C2: in every state of the store, an open request has no donorId, and an
\* approved or completed request has a donorId and an approvedAt.
C2_StateMachineSafety ==
    \A r \in DOMAIN store :
        /\ store[r].status = OPEN => store[r].donorId = NoUser
        /\ store[r].status \in {APPROVED, COMPLETED} =>
              (store[r].donorId # NoUser /\ store[r].approvedAt # NoTime)

\* C3: the stored status of a request changes only by open -> approved and
\* approved -> completed; nothing leaves completed and open never goes
\* directly to completed.
C3_LegalStep(a, b) ==
    \/ a = b
    \/ a = OPEN /\ b = APPROVED
    \/ a = APPROVED /\ b = COMPLETED

C3_StatusTransitions ==
    [][\A r \in DOMAIN store \cap DOMAIN store' :
          C3_LegalStep(store[r].status, store'[r].status)]_vars

\* C4: in every state of the store, completedAt is present exactly when the
\* status is completed, and a present completedAt is not before approvedAt.
C4_CompletedAt ==
    \A r \in DOMAIN store :
        /\ store[r].completedAt # NoTime <=> store[r].status = COMPLETED
        /\ store[r].completedAt # NoTime =>
              store[r].completedAt >= store[r].approvedAt

\* C5: an approve by the request's own recipient is answered with Forbidden
\* whatever the status of the request, writes nothing and leaves no write
\* pending.
C5_NoSelfApproval ==
    [][\A s \in Slots, u \in Users, r \in ReqIds :
          (Stored(r) /\ store[r].recipientId = u /\ RouteApprove(s, u, r)) =>
             /\ resp' = Response("approve", u, r, "Forbidden")
             /\ slot'[s] = Idle
             /\ store' = store]_vars

\* C5 witness: the recipient's approve of a completed request has just been
\* answered with Forbidden.
C5_Witness ==
    /\ resp.op = "approve"
    /\ resp.result = "Forbidden"
    /\ Stored(resp.rid)
    /\ store[resp.rid].recipientId = resp.actor
    /\ store[resp.rid].status = COMPLETED

\* C6: no stored request has a donorId equal to its recipientId.
C6_DonorIsNotRecipient ==
    \A r \in DOMAIN store : store[r].donorId # store[r].recipientId

\* C6 witness: an approve has just been answered with success and the
\* request carries the approver as donorId.
C6_Witness ==
    /\ resp.op = "approve"
    /\ resp.result = "OK"
    /\ Stored(resp.rid)
    /\ store[resp.rid].donorId = resp.actor

\* C7: an edit by an actor who is not the recipient, or of a request whose
\* status is not open, is rejected with Forbidden or Conflict and leaves no
\* write pending; an edit changes the stored request only for its recipient.
C7_Allowed(u, r) == store[r].recipientId = u /\ store[r].status = OPEN

C7_EditOnlyOwnOpen ==
    [][/\ \A s \in Slots, u \in Users, r \in ReqIds, t \in Titles :
             (Stored(r) /\ ~C7_Allowed(u, r) /\ RouteEdit(s, u, r, t)) =>
                /\ slot'[s] = Idle
                /\ resp'.result \in {"Forbidden", "Conflict"}
       /\ \A s \in Slots :
             (updateHelpRequest(s) /\ Stored(slot[s].rid) /\ store' # store) =>
                store[slot[s].rid].recipientId = slot[s].actor]_vars

\* C8: a delete by an actor who is not the recipient, or of a request whose
\* status is not open, is rejected and leaves no removal pending; a delete
\* removes the request only for its recipient.
C8_Allowed(u, r) == store[r].recipientId = u /\ store[r].status = OPEN

C8_DeleteOnlyOwnOpen ==
    [][/\ \A s \in Slots, u \in Users, r \in ReqIds :
             (Stored(r) /\ ~C8_Allowed(u, r) /\ RouteDelete(s, u, r)) =>
                /\ slot'[s] = Idle
                /\ resp'.result \in {"Forbidden", "Conflict", "BadRequest"}
       /\ \A s \in Slots :
             (deleteHelpRequest(s) /\ Stored(slot[s].rid)
                /\ slot[s].rid \notin DOMAIN store') =>
                store[slot[s].rid].recipientId = slot[s].actor]_vars

\* C9: whatever the interleaving of the owner's delete with a donor's
\* approve, the delete handler never removes a request whose stored status
\* is approved.
C9_ApprovedNeverDeleted ==
    [][\A s \in Slots :
          (deleteHelpRequest(s) /\ Stored(slot[s].rid)
             /\ store[slot[s].rid].status = APPROVED) =>
             slot[s].rid \in DOMAIN store']_vars

\* C10: complete is accepted exactly when the request it loads is approved
\* and the actor is its recipient or its donor, else it is rejected and
\* nothing is written; an accepted complete writes status = completed and
\* completedAt = now and leaves every other stored field, donorId and
\* approvedAt among them, as it is.
C10_Accepts(u, r) ==
    /\ store[r].status = APPROVED
    /\ u \in {store[r].recipientId, store[r].donorId}

C10_Complete ==
    [][/\ \A s \in Slots, u \in Users, r \in ReqIds :
             (Stored(r) /\ RouteComplete(s, u, r)) =>
                /\ store' = store
                /\ IF C10_Accepts(u, r)
                   THEN /\ slot'[s].pc = "loaded"
                        /\ slot'[s].op = "complete"
                        /\ slot'[s].actor = u
                        /\ slot'[s].rid = r
                   ELSE /\ slot'[s] = Idle
                        /\ resp'.op = "complete"
                        /\ resp'.result \in {"Forbidden", "InvalidState"}
       /\ \A s \in Slots :
             (completeHelpRequest(s) /\ Stored(slot[s].rid)) =>
                /\ resp' = Response("complete", slot[s].actor, slot[s].rid, "OK")
                /\ store' = [store EXCEPT ![slot[s].rid] =
                               [@ EXCEPT !.status = COMPLETED,
                                         !.completedAt = now]]]_vars

\* C10 witness: a complete has just been answered with success; the request
\* is completed at the current time and still has its donorId and approvedAt.
C10_Witness ==
    /\ resp.op = "complete"
    /\ resp.result = "OK"
    /\ Stored(resp.rid)
    /\ store[resp.rid].status = COMPLETED
    /\ store[resp.rid].completedAt = now
    /\ store[resp.rid].donorId # NoUser
    /\ store[resp.rid].approvedAt # NoTime

\* C11: a request whose stored status is open and whose end date is past
\* behaves as closed: an approve, an edit and an interest call on it are
\* each rejected, leave no write pending and leave the store as it is.
C11_ExpiredOpen(r) ==
    /\ Stored(r)
    /\ store[r].status = OPEN
    /\ isExpired(store[r], now)

C11_Rejected(s) ==
    /\ slot'[s] = Idle
    /\ resp'.result \in {"Forbidden", "Conflict", "BadRequest", "InvalidState"}
    /\ store' = store

C11_ExpiredBehavesClosed ==
    [][\A s \in Slots, u \in Users, r \in ReqIds :
          C11_ExpiredOpen(r) =>
             /\ RouteApprove(s, u, r) => C11_Rejected(s)
             /\ (\E t \in Titles : RouteEdit(s, u, r, t)) => C11_Rejected(s)
             /\ RouteInterest(s, u, r) => C11_Rejected(s)]_vars

\* C12: an interest call by a user other than the recipient who already has
\* an entry is answered with success and writes nothing; the save of a call
\* by a user without an entry appends one entry for that user at the end of
\* the list, after which the list holds exactly one entry for the user, and
\* changes no other entry and no other field.
C12_IdempotentInterest ==
    [][/\ \A s \in Slots, u \in Users, r \in ReqIds :
             (/\ Stored(r)
              /\ store[r].recipientId # u
              /\ entriesOf(store[r].interested, u) # {}
              /\ RouteInterest(s, u, r)) =>
                /\ store' = store
                /\ slot'[s] = Idle
                /\ resp' = Response("interest", u, r, "OK")
       /\ \A s \in Slots :
             (/\ markInterest(s)
              /\ Stored(slot[s].rid)
              /\ entriesOf(store[slot[s].rid].interested, slot[s].actor) = {}) =>
                LET r == slot[s].rid
                    before == store[r].interested
                    after == store'[r].interested
                IN /\ Len(after) = Len(before) + 1
                   /\ SubSeq(after, 1, Len(before)) = before
                   /\ after[Len(after)].userId = slot[s].actor
                   /\ Cardinality(entriesOf(after, slot[s].actor)) = 1
                   /\ store' = [store EXCEPT ![r].interested = after]]_vars

\* C12 witness: an interest call of a user who has exactly one entry, which
\* is not the last of the list, has just been answered with success: the
\* call found the entry and pushed nothing.
C12_Witness ==
    /\ resp.op = "interest"
    /\ resp.result = "OK"
    /\ Stored(resp.rid)
    /\ Cardinality(entriesOf(store[resp.rid].interested, resp.actor)) = 1
    /\ LET list == store[resp.rid].interested
       IN list[Len(list)].userId # resp.actor

\* C13: in every state of the store, the interested list of a request holds
\* at most one entry per user id.
C13_OneEntryPerUser ==
    \A r \in DOMAIN store, u \in Users :
        Cardinality(entriesOf(store[r].interested, u)) <= 1

\* C14: rate is accepted exactly when the request it loads is completed
\* and the actor is its recipient or its donor; in every other case it is
\* rejected, nothing is written and no write is pending; the save of an
\* accepted rate changes the rating of the request and nothing else.
C14_Accepts(u, r) ==
    /\ store[r].status = COMPLETED
    /\ u \in {store[r].recipientId, store[r].donorId}

C14_RateOnlyCompletedParty ==
    [][/\ \A s \in Slots, u \in Users, r \in ReqIds :
             (Stored(r) /\ \E n \in Stars, c \in Comments :
                              RouteRate(s, u, r, n, c)) =>
                /\ store' = store
                /\ IF C14_Accepts(u, r)
                   THEN /\ slot'[s].pc = "loaded"
                        /\ slot'[s].op = "rate"
                        /\ slot'[s].actor = u
                   ELSE /\ slot'[s] = Idle
                        /\ resp'.op = "rate"
                        /\ resp'.result \in {"Forbidden", "InvalidState"}
       /\ \A s \in Slots :
             (rateHelpRequest(s) /\ Stored(slot[s].rid)) =>
                \A f \in DOMAIN store[slot[s].rid] \ {"recipientRating", "donorRating"} :
                    store'[slot[s].rid][f] = store[slot[s].rid][f]]_vars

\* C14 witness: a rate has just been answered with success and the
\* completed request carries a rating.
C14_Witness ==
    /\ resp.op = "rate"
    /\ resp.result = "OK"
    /\ Stored(resp.rid)
    /\ store[resp.rid].status = COMPLETED
    /\ \/ store[resp.rid].recipientRating # NoRating
       \/ store[resp.rid].donorRating # NoRating

\* C15: the save of a rate by the recipient writes rating.donorRating and
\* leaves rating.recipientRating as it is; the save of a rate by the donor
\* writes rating.recipientRating and leaves rating.donorRating as it is.
C15_RatesOtherParty ==
    [][\A s \in Slots :
          (rateHelpRequest(s) /\ Stored(slot[s].rid)) =>
             LET r == slot[s].rid
                 written == CHOOSE f \in DOMAIN slot[s].arg : TRUE
             IN IF store[r].recipientId = slot[s].actor
                THEN /\ store'[r].donorRating = slot[s].arg[written]
                     /\ store'[r].recipientRating = store[r].recipientRating
                ELSE /\ store'[r].recipientRating = slot[s].arg[written]
                     /\ store'[r].donorRating = store[r].donorRating]_vars

\* C16: a rate by a party whose rating of the request is already stored
\* leaves no write pending, and no save of a rate changes the stored stars,
\* comment or timestamp of a rating that is already stored.
C16_RatingSetOnce ==
    [][/\ \A s \in Slots, u \in Users, r \in ReqIds :
             (/\ Stored(r)
              /\ store[r][ratingPath(store[r], u)] # NoRating
              /\ \E n \in Stars, c \in Comments : RouteRate(s, u, r, n, c)) =>
                slot'[s] = Idle
       /\ \A s \in Slots :
             (rateHelpRequest(s) /\ Stored(slot[s].rid)) =>
                LET r == slot[s].rid
                    path == ratingPath(store[r], slot[s].actor)
                IN store[r][path] # NoRating =>
                      store'[r][path] = store[r][path]]_vars

\* C17: a note call is accepted exactly when the actor is the recipient or
\* the donor of the request it loads, in any status, and is answered with
\* Forbidden and writes nothing for any other actor; the save of an accepted
\* call appends one note authored by the actor at the end of notes and
\* changes no earlier note and no other field.
C17_Accepts(u, r) == u \in {store[r].recipientId, store[r].donorId}

C19_ListsOnlyOpenUnexpired ==
    resp.op = "list" =>
       \A i \in DOMAIN resp.requests :
          /\ store[resp.requests[i].id].status = OPEN
          /\ store[resp.requests[i].id].endDate > now

\* C20: no item returned by a listing (getHelpRequests, getNearbyRequests)
\* is a request whose recipient is the caller, whatever the filters and the
\* radius.
C20_ExcludesOwnRequests ==
    resp.op \in {"list", "nearby"} =>
       \A i \in DOMAIN resp.requests :
          store[resp.requests[i].id].recipientId # resp.actor

\* a listing that returned a request while the store holds an unexpired
\* request of the caller
C20_Witness ==
    /\ resp.op = "list"
    /\ resp.requests # << >>
    /\ \E r \in DOMAIN store :
          /\ store[r].recipientId = resp.actor
          /\ store[r].endDate > now

\* the requests of the store inside the radius of a listing query, each with
\* its exact distance from the origin, nearest first
C21_InRadius(userId, status, radius, latitude) ==
    LET loc == userLocation(latitude, userId)
        inside == {r \in DOMAIN store :
                      /\ store[r].recipientId # userId
                      /\ status = "any" \/ store[r].status = status
                      /\ store[r].endDate > now
                      /\ calculateDistance(loc.latitude, store[r].latitude)
                            <= 100 * radius}
        listed == newestFirst(store, inside)
    IN sortByDistance([i \in DOMAIN listed |->
                          [id |-> listed[i],
                           distance |-> calculateDistance(loc.latitude,
                                            store[listed[i]].latitude)]])

\* C21: for a listing with a resolved origin, every returned item's exact
\* distance from the origin is at most the requested radius, for every
\* accepted radius (a request 5.56 km away is absent for radius 5).
C21_StrictRadius ==
    [][\A u \in Users, st \in StatusFilters, rad \in Radii,
          lat \in QueryLatitudes, p \in Pages, l \in Limits :
          (getHelpRequests(u, st, rad, lat, p, l)
             /\ located(userLocation(lat, u))) =>
             \A i \in DOMAIN resp'.requests :
                calculateDistance(userLocation(lat, u).latitude,
                                  store[resp'.requests[i].id].latitude)
                   <= 100 * rad]_vars

\* C22: for a listing with a resolved origin and radius filtering,
\* totalItems is the number of all stored requests that match the other
\* filters and lie inside the radius, whatever page and limit are asked, and
\* totalPages, hasNext and hasPrev are derived from it.
C22_TotalAfterFilter ==
    [][\A u \in Users, st \in StatusFilters, rad \in Radii,
          lat \in QueryLatitudes, p \in Pages, l \in Limits :
          (getHelpRequests(u, st, rad, lat, p, l)
             /\ located(userLocation(lat, u)) /\ rad # 5) =>
             resp'.pagination =
                getPaginationInfo(resp'.pagination.currentPage, l,
                                  Len(C21_InRadius(u, st, rad, lat)))]_vars

\* C23: for a listing with a resolved origin and radius filtering whose
\* filtered total T is positive, asking a page beyond ceil(T / limit)
\* returns the items of page ceil(T / limit), a non-empty list, and reports
\* that page as the current page.
C23_PageClamped ==
    [][\A u \in Users, st \in StatusFilters, rad \in Radii,
          lat \in QueryLatitudes, p \in Pages, l \in Limits :
          LET all == C21_InRadius(u, st, rad, lat)
              lastPage == (Len(all) + l - 1) \div l
          IN (getHelpRequests(u, st, rad, lat, p, l)
                /\ located(userLocation(lat, u)) /\ rad # 5
                /\ Len(all) > 0 /\ p > lastPage) =>
                /\ resp'.requests = slice(all, (lastPage - 1) * l, l)
                /\ resp'.requests # << >>
                /\ resp'.pagination.currentPage = lastPage]_vars

\* a listing handler that passed authentication and has no origin: no
\* coordinates in its query and no profile of its caller
C24_NoOrigin(s) ==
    /\ IsPending(s, "list")
    /\ slot[s].arg.latitude = NoCoord
    /\ slot[s].actor \notin users

\* the unexpired requests of other users, newest first, without distance
C24_Unfiltered(userId) ==
    LET all == newestFirst(store, {r \in DOMAIN store :
                                      /\ store[r].recipientId # userId
                                      /\ store[r].endDate > now})
    IN [i \in DOMAIN all |-> [id |-> all[i], distance |-> NoDistance]]

\* C24: a listing for which no origin can be resolved applies no distance
\* filter, substitutes no default location, and returns every item with no
\* distance.
C24_NoOriginNoFilter ==
    [][\A s \in Slots :
          (C24_NoOrigin(s)
             /\ (getHelpRequestsNoFallback(s)
                   \/ getHelpRequestsDefaultLocation(s))) =>
             resp'.requests = C24_Unfiltered(slot[s].actor)]_vars

\* category is one of the categories of the validated items of an items list
\* and no category has more of them
C25_Maximal(items, category) ==
    LET valid == validItems(items)
    IN /\ \E k \in DOMAIN valid : valid[k].category = category
       /\ \A k \in DOMAIN valid :
             categoryCounts(valid, valid[k].category)
                <= categoryCounts(valid, category)

\* C25: a creation, and an edit that supplies items, store the items with a
\* category that has the most validated items among them (food, food,
\* medical give food); an edit without items leaves the category as it is.
\* Read on the document the handler loaded.
C25_CategoryInference ==
    [][/\ (resp'.op = "create" /\ resp'.result = "OK") =>
             C25_Maximal(store'[resp'.rid].items, store'[resp'.rid].category)
       /\ \A s \in Slots :
             (slot[s] = Idle /\ slot'[s] # Idle /\ slot'[s].op = "edit") =>
                IF "items" \in DOMAIN slot'[s].arg
                THEN C25_Maximal(slot'[s].arg.items,
                                 IF "category" \in DOMAIN slot'[s].arg
                                 THEN slot'[s].arg.category
                                 ELSE store[slot'[s].rid].category)
                ELSE "category" \notin DOMAIN slot'[s].arg
       /\ \A s \in Slots :
             (updateHelpRequest(s) /\ Stored(slot[s].rid)) =>
                \A f \in DOMAIN store[slot[s].rid] :
                   store'[slot[s].rid][f] =
                      IF f \in DOMAIN slot[s].arg THEN slot[s].arg[f]
                      ELSE store[slot[s].rid][f]]_vars

\* an accepted edit stored two food items and a medical item
C25_Witness ==
    /\ resp.op = "edit"
    /\ resp.result = "OK"
    /\ Stored(resp.rid)
    /\ store[resp.rid].items = << "i1", "i2", "i3" >>
    /\ store[resp.rid].category = "food"

\* an items list with an id that is unknown or inactive in the catalog
C26_Unavailable(items) ==
    \E k \in DOMAIN items :
       \A i \in DOMAIN HelpItems :
          HelpItems[i].id = items[k] => ~HelpItems[i].isActive

\* C26: a create call with an item id that is unknown or inactive in the
\* catalog is answered with a validation error and stores no request.
C26_CreateRejectsUnavailable ==
    [][resp'.op = "create" =>
          \A b \in CreateBodies :
             (C26_Unavailable(b.items)
                /\ createHelpRequestItems(resp'.actor, b)) =>
                /\ resp'.result \in {"ValidationError", "ItemsUnavailable"}
                /\ store' = store]_vars

\* a create call with an unavailable item id was answered while the store
\* is still empty
C26_Witness ==
    /\ resp.op = "create"
    /\ resp.result = "ItemsUnavailable"
    /\ DOMAIN store = {}

\* C27: the pickupLocation of a created request is the location of the
\* creating actor's profile, whatever location the request body holds, and
\* its recipientId is the authenticated actor.
C27_LocationFromProfile ==
    [][(resp'.op = "create" /\ resp'.result = "OK") =>
          /\ store'[resp'.rid].pickupLocation = profileLocation(resp'.actor)
          /\ store'[resp'.rid].recipientId = resp'.actor]_vars

\* a request was created by u1 and stored at the place of u1's profile
C27_Witness ==
    /\ resp.op = "create"
    /\ resp.result = "OK"
    /\ resp.actor = "u1"
    /\ store[resp.rid].recipientId = "u1"
    /\ store[resp.rid].pickupLocation.latitude = coordinates("u1")

\* C28: when the approval notification fails after approve() saved the
\* request, the approve call is still answered with success and the request
\* is stored approved with the actor as donorId.
C28_NotificationFailureSuppressed ==
    [][\A s \in Slots :
          (approveHelpRequestNotify(s, FALSE) /\ Stored(slot[s].rid)) =>
             /\ resp'.result = "OK"
             /\ store'[slot[s].rid].status = APPROVED
             /\ store'[slot[s].rid].donorId = slot[s].actor]_vars

\* an approve call whose notification was not delivered has been answered
\* and the request is stored approved
C28_Witness ==
    /\ resp.op = "approve"
    /\ "delivered" \in DOMAIN resp
    /\ ~resp.delivered
    /\ Stored(resp.rid)
    /\ store[resp.rid].status = APPROVED

\* the deletion of a user's account is blocked by a stored request: the
\* user is its recipient and it is open or approved, or the user is its
\* donor and it is approved
C29_Blocked(u) ==
    \E r \in DOMAIN store :
       \/ store[r].recipientId = u /\ store[r].status \in {OPEN, APPROVED}
       \/ store[r].donorId = u /\ store[r].status = APPROVED

\* C29: deleteAccount is refused, and changes neither the user nor any
\* request, whenever the user is the recipient of an open or approved
\* request or the donor of an approved request.
C29_DeleteAccountRefused ==
    [][\A u \in Users, p \in BOOLEAN :
          (deleteAccount(u, p) /\ C29_Blocked(u)) =>
             /\ resp'.result = "BadRequest"
             /\ store' = store
             /\ users' = users]_vars

\* the deletion of the account of the donor of an approved request was
\* refused
C29_Witness ==
    /\ resp.op = "deleteAccount"
    /\ resp.result = "BadRequest"
    /\ resp.actor \in users
    /\ \E r \in DOMAIN store :
          store[r].donorId = resp.actor /\ store[r].status = APPROVED

\* C30: a completed request is kept across account deletion: deleteAccount
\* by its recipient or its donor neither removes it nor changes its status,
\* donorId, approvedAt or completedAt.
C30_CompletedRetained ==
    [][\A u \in Users, p \in BOOLEAN :
          deleteAccount(u, p) =>
             \A r \in DOMAIN store :
                (/\ store[r].status = COMPLETED
                 /\ (store[r].recipientId = u \/ store[r].donorId = u)) =>
                   /\ r \in DOMAIN store'
                   /\ store'[r].status = store[r].status
                   /\ store'[r].donorId = store[r].donorId
                   /\ store'[r].approvedAt = store[r].approvedAt
                   /\ store'[r].completedAt = store[r].completedAt]_vars

\* C31: a complete call on a stored request whose status is not approved is
\* answered InvalidState whoever the caller is, a caller who is neither its
\* recipient nor its donor included, and the store stays as it is.
C31_CompleteNotApprovedInvalidState ==
    [][\A s \in Slots, u \in Users, r \in ReqIds :
          (Stored(r) /\ store[r].status # APPROVED /\ RouteComplete(s, u, r)) =>
             /\ resp' = Response("complete", u, r, "InvalidState")
             /\ store' = store]_vars

\* C32: the flags returned by getRequest agree with the guards of the
\* operations: on the stored state the view answered from, an approve by
\* the viewer passes its checks exactly when canApprove was true, and an
\* edit by the viewer is accepted exactly when canEdit was true.
C32_FlagsMatchGuards ==
    [][(resp.op = "view" /\ resp.result = "OK") =>
          /\ \A s \in Slots :
                RouteApprove(s, resp.actor, resp.rid) =>
                   (resp.canApprove <=> slot'[s].pc = "loaded")
          /\ \A s \in Slots, t \in Titles :
                RouteEdit(s, resp.actor, resp.rid, t) =>
                   (resp.canEdit <=>
                       (slot'[s].pc = "loaded" \/ resp'.result = "OK"))]_vars

\* the category with the most validated items that comes first in the order
\* in which the validated items are iterated
C33_FirstTied(itemIds) ==
    LET valid == validItems(itemIds)
        keys == categoryKeys(valid)
        most(k) == \A j \in DOMAIN keys :
                      categoryCounts(valid, keys[j]) <=
                         categoryCounts(valid, keys[k])
    IN keys[CHOOSE k \in DOMAIN keys :
               most(k) /\ \A j \in 1..(k - 1) : ~most(j)]

\* C33: when several categories have the most validated items, a creation
\* and an edit with items store the tied category met first in the
\* iteration order of the validated items; the same items give the same
\* category on every call.
C33_TieTakesFirstCategory ==
    [][/\ (resp'.op = "create" /\ resp'.result = "OK") =>
             store'[resp'.rid].category =
                C33_FirstTied(store'[resp'.rid].items)
       /\ \A s \in Slots :
             (slot[s] = Idle /\ slot'[s] # Idle /\ slot'[s].op = "edit"
                /\ "items" \in DOMAIN slot'[s].arg) =>
                C33_FirstTied(slot'[s].arg.items) =
                   IF "category" \in DOMAIN slot'[s].arg
                   THEN slot'[s].arg.category
                   ELSE store[slot'[s].rid].category]_vars

\* the stored requests that match the filters of a listing other than the
\* radius: of another user, of the asked status, not expired
C34_NonSpatial(userId, status) ==
    {r \in DOMAIN store :
        /\ store[r].recipientId # userId
        /\ status = "any" \/ store[r].status = status
        /\ store[r].endDate > now}

C35_Matches(userId, radius, origin) ==
    {r \in DOMAIN store :
        /\ store[r].recipientId # userId
        /\ store[r].endDate > now
        /\ radius # 5 =>
              calculateDistance(origin, store[r].latitude) <= 100 * radius}

\* C35: with a resolved origin the ranking by distance comes before the
\* pagination: the page is in non-decreasing order of distance and holds the
\* items at the places (page-1)*limit+1 .. page*limit of all filtered
\* matches in ascending order of distance, so that fewer than k matches are
\* nearer than the item at place k of that order.
C35_RankBeforePagination ==
    [][\A s \in Slots :
          (getHelpRequestsNoFallback(s) /\ slot[s].arg.status = "any"
             /\ located(userLocation(slot[s].arg.latitude, slot[s].actor))) =>
             LET h == slot[s]
                 origin == userLocation(h.arg.latitude, h.actor).latitude
                 all == C35_Matches(h.actor, h.arg.radius, origin)
                 d(r) == calculateDistance(origin, store[r].latitude)
                 skip == (h.arg.page - 1) * h.arg.limit
                 rest == IF Cardinality(all) > skip
                         THEN Cardinality(all) - skip ELSE 0
             IN /\ Len(resp'.requests) =
                      IF rest < h.arg.limit THEN rest ELSE h.arg.limit
                /\ \A i \in DOMAIN resp'.requests :
                      LET x == resp'.requests[i].id
                      IN /\ x \in all
                         /\ resp'.requests[i].distance = d(x)
                         /\ Cardinality({r \in all : d(r) < d(x)}) < skip + i
                         /\ Cardinality({r \in all : d(r) <= d(x)}) >= skip + i
                /\ \A i \in DOMAIN resp'.requests, j \in DOMAIN resp'.requests :
                      i < j => resp'.requests[i].distance
                                  <= resp'.requests[j].distance]_vars

\* the rank of a priority in the order critical, high, medium, low
C36_Rank(p) ==
    CASE p = "critical" -> 4
      [] p = "high" -> 3
      [] p = "medium" -> 2
      [] p = "low" -> 1

\* C36: a listing for which no origin is resolved (no coordinates in the
\* query, no profile of the caller) is ordered by priority, critical first,
\* then high, medium and low, and by createdAt descending among requests of
\* one priority: no request comes before one of higher priority.
C36_PriorityOrder ==
    [][\A s \in Slots :
          (getHelpRequestsNoFallback(s)
             /\ slot[s].arg.latitude = NoCoord
             /\ slot[s].actor \notin users) =>
             \A i \in DOMAIN resp'.requests, j \in DOMAIN resp'.requests :
                i < j =>
                   LET a == store[resp'.requests[i].id]
                       b == store[resp'.requests[j].id]
                   IN \/ C36_Rank(a.priority) > C36_Rank(b.priority)
                      \/ /\ a.priority = b.priority
                         /\ a.createdAt >= b.createdAt]_vars

\* C37: when the query holds valid coordinates, latitude 0 included, they
\* are the origin of the listing: every distance in the response is the
\* distance from them, and the radius filter is taken around them; the
\* caller's profile is not read for the origin.
C37_ExplicitOriginWins ==
    [][\A s \in Slots :
          (getHelpRequestsNoFallback(s)
             /\ slot[s].arg.latitude # NoCoord) =>
             \A i \in DOMAIN resp'.requests :
                LET d == calculateDistance(slot[s].arg.latitude,
                            store[resp'.requests[i].id].latitude)
                IN /\ resp'.requests[i].distance = d
                   /\ slot[s].arg.radius # 5 =>
                         d <= 100 * slot[s].arg.radius]_vars

\* the paths an edit has to leave alone
C38_Protected ==
    {"recipientId", "donorId", "status", "approvedAt", "completedAt",
     "pickupLocation"}

\* C38: an accepted edit writes none of recipientId, donorId, status,
\* approvedAt, completedAt and pickupLocation, whatever the body of the
\* call holds: none of them is among the paths the handler hands to save(),
\* and the save leaves each of them as stored.
C38_EditKeepsLifecycle ==
    [][/\ \A s \in Slots :
             (slot[s] = Idle /\ slot'[s] # Idle /\ slot'[s].op = "edit") =>
                DOMAIN slot'[s].arg \cap C38_Protected = {}
       /\ \A s \in Slots :
             (updateHelpRequest(s) /\ Stored(slot[s].rid)) =>
                \A f \in C38_Protected :
                   store'[slot[s].rid][f] = store[slot[s].rid][f]
       /\ (resp'.op = "edit" /\ resp'.result = "OK"
             /\ \A s \in Slots : ~updateHelpRequest(s)) =>
                store' = store]_vars

\* an edit of an approved request was saved: the title is new, the request
\* is still approved by its donor and still at the place of u1's profile
C38_Witness ==
    /\ resp.op = "edit"
    /\ resp.result = "OK"
    /\ Stored(resp.rid)
    /\ store[resp.rid].title = 2
    /\ store[resp.rid].status = APPROVED
    /\ store[resp.rid].donorId \in {"u2", "u3"}
    /\ store[resp.rid].approvedAt # NoTime
    /\ store[resp.rid].recipientId = "u1"
    /\ store[resp.rid].pickupLocation = profileLocation("u1")

\* C39: a request stored by a create call is open, has no donorId, no
\* approvedAt and no completedAt, no notes, no ratings, zero views and an
\* empty interested list, whatever the body of the call holds.
C39_CreatedFresh ==
    [][(resp'.op = "create" /\ resp'.result = "OK") =>
          LET d == store'[resp'.rid]
          IN /\ d.status = OPEN
             /\ d.donorId = NoUser
             /\ d.approvedAt = NoTime
             /\ d.completedAt = NoTime
             /\ d.notes = << >>
             /\ d.recipientRating = NoRating
             /\ d.donorRating = NoRating
             /\ d.views = 0
             /\ d.interested = << >>]_vars

\* a create call of u2 has just stored a request with three items; it is
\* open and has no donor
C39_Witness ==
    /\ resp.op = "create"
    /\ resp.result = "OK"
    /\ resp.actor = "u2"
    /\ Len(store[resp.rid].items) = 3
    /\ store[resp.rid].recipientId = "u2"
    /\ store[resp.rid].status = OPEN
    /\ store[resp.rid].donorId = NoUser
    /\ store[resp.rid].views = 0

\* every id of an items list is the id of an active catalog item
C40_AllActive(items) ==
    \A k \in DOMAIN items :
       \E i \in DOMAIN HelpItems :
          HelpItems[i].id = items[k] /\ HelpItems[i].isActive

\* C40: a create call and an edit whose items all reference active catalog
\* items pass the item check, also when one item id is written in more
\* than one entry of the list.
C40_AcceptsActiveItems ==
    [][/\ resp'.op = "create" =>
             \A b \in CreateBodies :
                (C40_AllActive(b.items)
                   /\ createHelpRequestItems(resp'.actor, b)) =>
                   resp'.result # "ItemsUnavailable"
       /\ resp'.op = "edit" =>
             \A s \in Slots, l \in ItemLists :
                (C40_AllActive(l)
                   /\ RouteEditItems(s, resp'.actor, resp'.rid, l)) =>
                   resp'.result # "ItemsUnavailable"]_vars

====
